---------------------------- MODULE Spec2Model ----------------------------
(***************************************************************************)
(* Kinematics edges of the timed-elastic-band planner:                     *)
(* EdgeKinematicsDiffDrive and EdgeKinematicsCarlike                       *)
(* (include/teb_local_planner/g2o_types/edge_kinematics.h).                *)
(*                                                                         *)
(* Numbers.  A double is modelled as an extended real: an exact rational,  *)
(* NaN, +Inf or -Inf, with the IEEE-754 rules for the special values.  A   *)
(* double that was never assigned is the value Indet.                      *)
(* Angles are counted in quarter turns (1 = pi/2), so that sin and cos are *)
(* exact; a turning radius is therefore a length per quarter turn (the     *)
(* radian value times pi/2), for the computed radius and for the           *)
(* configured min_turning_radius alike.  Positions are drawn from the      *)
(* corners of 6k x 8k rectangles, so that every distance is an integer.    *)
(***************************************************************************)
EXTENDS Integers, Sequences, FiniteSets, TLC

(***************************************************************************)
(* Bounds of the model.                                                    *)
(***************************************************************************)
MaxScale == 2      \* positions are corners of the rectangles 6k x 8k, k \in 1..MaxScale
MaxTurn == 4       \* headings are 0..MaxTurn quarter turns
MaxEdges == 2      \* edge objects of the graph specification
MaxPoses == 2      \* pose vertices
MaxLog == 4        \* log lines a run may emit

(***************************************************************************)
(* Extended reals: k is "fin" (the rational n/d in lowest terms, d > 0),   *)
(* "nan" or "inf" (n its sign).                                            *)
(***************************************************************************)
Sgn(n) == IF n > 0 THEN 1 ELSE IF n < 0 THEN -1 ELSE 0
AbsInt(n) == IF n < 0 THEN -n ELSE n

RECURSIVE GCD(_, _)
GCD(a, b) == IF b = 0 THEN a ELSE GCD(b, a % b)

\* the rational n/d, d # 0
Rat(n, d) ==
    LET g == GCD(AbsInt(n), AbsInt(d))
    IN  [k |-> "fin", n |-> Sgn(d) * (n \div g), d |-> AbsInt(d) \div g]
Fin(n) == [k |-> "fin", n |-> n, d |-> 1]
NaN == [k |-> "nan", n |-> 0, d |-> 1]
PInf == [k |-> "inf", n |-> 1, d |-> 1]
NInf == [k |-> "inf", n |-> -1, d |-> 1]
\* a double that was never assigned
Indet == [k |-> "indet", n |-> 0, d |-> 1]
Infinity(sgn) == [k |-> "inf", n |-> sgn, d |-> 1]

isfinite(a) == a.k = "fin"
IsNaN(a) == a.k = "nan"

Neg(a) == IF IsNaN(a) THEN NaN ELSE [k |-> a.k, n |-> -a.n, d |-> a.d]

Add(a, b) ==
    IF IsNaN(a) \/ IsNaN(b) THEN NaN
    ELSE IF a.k = "inf" /\ b.k = "inf" THEN (IF a.n = b.n THEN a ELSE NaN)
    ELSE IF a.k = "inf" THEN a
    ELSE IF b.k = "inf" THEN b
    ELSE Rat(a.n * b.d + b.n * a.d, a.d * b.d)

Sub(a, b) == Add(a, Neg(b))

Mul(a, b) ==
    IF IsNaN(a) \/ IsNaN(b) THEN NaN
    ELSE IF a.k = "fin" /\ b.k = "fin" THEN Rat(a.n * b.n, a.d * b.d)
    ELSE IF Sgn(a.n) * Sgn(b.n) = 0 THEN NaN
    ELSE Infinity(Sgn(a.n) * Sgn(b.n))

\* a / b
Div(a, b) ==
    IF IsNaN(a) \/ IsNaN(b) THEN NaN
    ELSE IF a.k = "inf" /\ b.k = "inf" THEN NaN
    ELSE IF a.k = "inf" THEN Infinity(a.n * (IF b.n < 0 THEN -1 ELSE 1))
    ELSE IF b.k = "inf" THEN Fin(0)
    ELSE IF b.n = 0 THEN (IF a.n = 0 THEN NaN ELSE Infinity(Sgn(a.n)))
    ELSE Rat(a.n * b.d, a.d * b.n)

fabs(a) == IF IsNaN(a) THEN NaN ELSE [k |-> a.k, n |-> AbsInt(a.n), d |-> a.d]

\* a >= b, false when either side is NaN
GE(a, b) ==
    IF IsNaN(a) \/ IsNaN(b) THEN FALSE
    ELSE IF a.k = "inf" THEN (a.n = 1 \/ (b.k = "inf" /\ b.n = -1))
    ELSE IF b.k = "inf" THEN b.n = -1
    ELSE a.n * b.d >= b.n * a.d

\* a < b, false when either side is NaN
LT(a, b) == ~IsNaN(a) /\ ~IsNaN(b) /\ ~GE(a, b)

\* a == 0
EqZero(a) == a.k = "fin" /\ a.n = 0

\* An angle is a number of quarter turns (1 = pi/2); the kind "rot" is the
\* angle of n quarter turns plus d times atan(5/12), d = 1 or -1, whose sine
\* and cosine are rational as well: sin atan(5/12) = 5/13, cos atan(5/12) = 12/13.
Rot(n, d) == [k |-> "rot", n |-> n, d |-> d]
CosQuarter(n) == CASE n % 4 = 0 -> 1 [] n % 4 = 2 -> -1 [] OTHER -> 0
SinQuarter(n) == CASE n % 4 = 1 -> 1 [] n % 4 = 3 -> -1 [] OTHER -> 0

cos(a) ==
    IF a.k = "rot" THEN Rat(12 * CosQuarter(a.n) - 5 * a.d * SinQuarter(a.n), 13)
    ELSE IF a.k # "fin" \/ a.d # 1 THEN NaN
    ELSE Fin(CosQuarter(a.n))

sin(a) ==
    IF a.k = "rot" THEN Rat(12 * SinQuarter(a.n) + 5 * a.d * CosQuarter(a.n), 13)
    ELSE IF a.k # "fin" \/ a.d # 1 THEN NaN
    ELSE Fin(SinQuarter(a.n))

\* the square root of a square
sqrt(a) ==
    IF IsNaN(a) THEN NaN
    ELSE IF a.k = "inf" THEN (IF a.n = 1 THEN PInf ELSE NaN)
    ELSE IF a.n < 0 THEN NaN
    ELSE Rat(CHOOSE r \in 0..a.n : r * r = a.n, CHOOSE r \in 1..a.d : r * r = a.d)

\* Eigen::Vector2d::norm()
norm(v) == sqrt(Add(Mul(v[1], v[1]), Mul(v[2], v[2])))

\* g2o::sign
sign(a) ==
    IF IsNaN(a) THEN Fin(0)
    ELSE Fin(Sgn(a.n))

\* g2o::normalize_theta, the angle brought into [-pi, pi): pi is 2 quarter turns
normalize_theta(theta) ==
    IF GE(theta, Fin(-2)) /\ LT(theta, Fin(2)) THEN theta
    ELSE IF theta.k # "fin" THEN NaN
    ELSE LET multiplier == Fin(theta.n \div (4 * theta.d))
             t == Sub(theta, Mul(multiplier, Fin(4)))
         IN  IF GE(t, Fin(2)) THEN Sub(t, Fin(4)) ELSE t

(***************************************************************************)
(* penalties.h and teb_config.h                                            *)
(***************************************************************************)
\* penaltyBoundFromBelow(var, a, epsilon): 0 for var >= a + epsilon, else linear
penaltyBoundFromBelow(var, a, epsilon) ==
    IF GE(var, Add(a, epsilon)) THEN Fin(0)
    ELSE Add(Neg(var), Add(a, epsilon))

\* penaltyBoundFromBelowDerivative(var, a, epsilon)
penaltyBoundFromBelowDerivative(var, a, epsilon) ==
    IF GE(var, Add(a, epsilon)) THEN Fin(0)
    ELSE Fin(-1)

\* a TebConfig as far as the edges read it
TebConfig(r, eps) == [min_turning_radius |-> Fin(r), penalty_epsilon |-> Fin(eps)]
Configs == {TebConfig(0, 0), TebConfig(4, 0), TebConfig(4, 1), TebConfig(7, 1)}

\* the pointer cfg_: never assigned, or the address of a configuration
UninitCfg == [p |-> "uninit", cfg |-> TebConfig(0, 0)]
BoundCfg(c) == [p |-> "bound", cfg |-> c]
\* what a read of cfg_ can yield: an uninitialised pointer reads as null or as
\* any other address
CfgReadings(ptr) == IF ptr.p = "uninit" THEN {"null", "garbage"} ELSE {"bound"}

(***************************************************************************)
(* VertexPose: position() and theta()                                      *)
(***************************************************************************)
Pose(x, y, t) == [x |-> x, y |-> y, theta |-> t]
position(conf) == <<conf.x, conf.y>>
FinitePose(conf) == isfinite(conf.x) /\ isfinite(conf.y) /\ isfinite(conf.theta)

VecSub(a, b) == <<Sub(a[1], b[1]), Sub(a[2], b[2])>>
dot(a, b) == Add(Mul(a[1], b[1]), Mul(a[2], b[2]))

(***************************************************************************)
(* The cost functions, lines 111-118 and 282-292: the error vector as a    *)
(* function of the two endpoint poses and the configuration.               *)
(***************************************************************************)
\* the non-holonomic residual, _error[0] of both edges
NonHolonomicError(conf1, conf2, deltaS) ==
    fabs(Sub(Mul(Add(cos(conf1.theta), cos(conf2.theta)), deltaS[2]),
             Mul(Add(sin(conf1.theta), sin(conf2.theta)), deltaS[1])))

DiffDrive_errorMutEps(cfg, conf1, conf2) ==
    LET deltaS == VecSub(position(conf2), position(conf1))
        angle_vec == <<cos(conf1.theta), sin(conf1.theta)>>
    IN  [err |-> <<NonHolonomicError(conf1, conf2, deltaS),
                   penaltyBoundFromBelow(dot(deltaS, angle_vec), Fin(0), cfg.penalty_epsilon)>>,
         div |-> FALSE,
         omega_t |-> Fin(0)]

DiffDrive_error(cfg, conf1, conf2) ==
    LET deltaS == VecSub(position(conf2), position(conf1))
        angle_vec == <<cos(conf1.theta), sin(conf1.theta)>>
    IN  [err |-> <<NonHolonomicError(conf1, conf2, deltaS),
                   penaltyBoundFromBelow(dot(deltaS, angle_vec), Fin(0), Fin(0))>>,
         div |-> FALSE,
         omega_t |-> Fin(0)]

Carlike_errorMutNoBranch(cfg, conf1, conf2) ==
    LET deltaS == VecSub(position(conf2), position(conf1))
        omega_t == normalize_theta(Sub(conf2.theta, conf1.theta))
    IN  [err |-> <<NonHolonomicError(conf1, conf2, deltaS),
                   penaltyBoundFromBelow(Div(norm(deltaS), fabs(omega_t)),
                                         cfg.min_turning_radius, Fin(0))>>,
         div |-> TRUE,
         omega_t |-> omega_t]

Carlike_errorMutEps(cfg, conf1, conf2) ==
    LET deltaS == VecSub(position(conf2), position(conf1))
        omega_t == normalize_theta(Sub(conf2.theta, conf1.theta))
    IN  [err |-> <<NonHolonomicError(conf1, conf2, deltaS),
                   IF EqZero(omega_t) THEN Fin(0)
                   ELSE penaltyBoundFromBelow(Div(norm(deltaS), fabs(omega_t)),
                                              cfg.min_turning_radius, cfg.penalty_epsilon)>>,
         div |-> ~EqZero(omega_t),
         omega_t |-> omega_t]

\* div: whether deltaS.norm() / fabs(omega_t) was evaluated
Carlike_error(cfg, conf1, conf2) ==
    LET deltaS == VecSub(position(conf2), position(conf1))
        omega_t == normalize_theta(Sub(conf2.theta, conf1.theta))
    IN  [err |-> <<NonHolonomicError(conf1, conf2, deltaS),
                   IF EqZero(omega_t) THEN Fin(0)
                   ELSE penaltyBoundFromBelow(Div(norm(deltaS), fabs(omega_t)),
                                              cfg.min_turning_radius, Fin(0))>>,
         div |-> ~EqZero(omega_t),
         omega_t |-> omega_t]

\* the closing ROS_ASSERT_MSG of computeError, lines 121 and 299
ErrorFiniteMutOr(err) == isfinite(err[1]) \/ isfinite(err[2])

ErrorFinite(err) == isfinite(err[1]) /\ isfinite(err[2])

(***************************************************************************)
(* EdgeKinematicsDiffDrive::linearizeOplus, lines 135-165: the two 2x3     *)
(* Jacobians.                                                              *)
(***************************************************************************)
DiffDrive_jacobianMutSign(conf1, conf2) ==
    LET deltaS == VecSub(position(conf2), position(conf1))
        cos1 == cos(conf1.theta)
        cos2 == cos(conf2.theta)
        sin1 == sin(conf1.theta)
        sin2 == sin(conf2.theta)
        aux1 == Add(sin1, sin2)
        aux2 == Add(cos1, cos2)
        dd_error_1 == Mul(deltaS[1], cos1)
        dd_error_2 == Mul(deltaS[2], sin1)
        dd_dev == penaltyBoundFromBelowDerivative(Add(dd_error_1, dd_error_2), Fin(0), Fin(0))
        dev_nh_abs == sign(Sub(Mul(Add(cos(conf1.theta), cos(conf2.theta)), deltaS[2]),
                               Mul(Add(sin(conf1.theta), sin(conf2.theta)), deltaS[1])))
    IN  [Xi |-> << << Mul(aux1, dev_nh_abs),
                      Mul(Neg(aux2), dev_nh_abs),
                      Mul(Sub(Neg(dd_error_2), dd_error_1), dev_nh_abs) >>,
                   << Mul(Neg(cos1), dd_dev),
                      Mul(Neg(sin1), dd_dev),
                      Mul(Add(Mul(Neg(sin1), deltaS[1]), Mul(cos1, deltaS[2])), dd_dev) >> >>,
         Xj |-> << << Mul(Neg(aux1), dev_nh_abs),
                      Mul(aux2, dev_nh_abs),
                      Mul(Add(Mul(Neg(sin2), deltaS[2]), Mul(cos2, deltaS[1])), dev_nh_abs) >>,
                   << Mul(cos1, dd_dev),
                      Mul(sin1, dd_dev),
                      Fin(0) >> >>]

DiffDrive_jacobian(conf1, conf2) ==
    LET deltaS == VecSub(position(conf2), position(conf1))
        cos1 == cos(conf1.theta)
        cos2 == cos(conf2.theta)
        sin1 == sin(conf1.theta)
        sin2 == sin(conf2.theta)
        aux1 == Add(sin1, sin2)
        aux2 == Add(cos1, cos2)
        dd_error_1 == Mul(deltaS[1], cos1)
        dd_error_2 == Mul(deltaS[2], sin1)
        dd_dev == penaltyBoundFromBelowDerivative(Add(dd_error_1, dd_error_2), Fin(0), Fin(0))
        dev_nh_abs == sign(Sub(Mul(Add(cos(conf1.theta), cos(conf2.theta)), deltaS[2]),
                               Mul(Add(sin(conf1.theta), sin(conf2.theta)), deltaS[1])))
    IN  [Xi |-> << << Mul(aux1, dev_nh_abs),
                      Mul(Neg(aux2), dev_nh_abs),
                      Mul(Sub(Neg(dd_error_2), dd_error_1), dev_nh_abs) >>,
                   << Mul(Neg(cos1), dd_dev),
                      Mul(Neg(sin1), dd_dev),
                      Mul(Add(Mul(Neg(sin1), deltaS[1]), Mul(cos1, deltaS[2])), dd_dev) >> >>,
         Xj |-> << << Mul(Neg(aux1), dev_nh_abs),
                      Mul(aux2, dev_nh_abs),
                      Mul(Sub(Mul(Neg(sin2), deltaS[2]), Mul(cos2, deltaS[1])), dev_nh_abs) >>,
                   << Mul(cos1, dd_dev),
                      Mul(sin1, dd_dev),
                      Fin(0) >> >>]


(***************************************************************************)
(* State.                                                                  *)
(***************************************************************************)
VARIABLES
    poses,      \* the VertexPose objects of the band: position and heading
    adj,        \* VertexPose::edges() of each pose
    graph,      \* the edges held by the optimizer's graph
    edges,      \* the edge objects
    stream,     \* the text stream write() fills and read() drains
    wrote,      \* the measurement and weight of the edge that filled the stream
    outcome,    \* how the last call ended
    log         \* number of lines sent to the ROS log

vars == <<poses, adj, graph, edges, stream, wrote, outcome, log>>

EdgeIds == 1..MaxEdges
PoseIds == 1..MaxPoses
NULL == 0
Kinds == {"DiffDrive", "Carlike"}
Faults == {"precondition_fault", "numerical_fault", "segfault"}

IndetVec == <<Indet, Indet>>
IndetJac == <<<<Indet, Indet, Indet>>, <<Indet, Indet, Indet>>>>

\* an edge object that does not exist (not yet constructed, or destroyed)
NoEdge(st) ==
    [st |-> st, kind |-> "none", cfg_ |-> UninitCfg, _vertices |-> <<NULL, NULL>>,
     _measurement |-> Indet, _information |-> IndetVec, _error |-> IndetVec,
     _jacobianOplusXi |-> IndetJac, _jacobianOplusXj |-> IndetJac]

\* EdgeKinematicsDiffDrive() and EdgeKinematicsCarlike(): the measurement is set
\* to 0 and both vertices to NULL; cfg_ is given no value, and neither are the
\* base class's information matrix, error vector and Jacobians.
NewEdge(kind) ==
    [st |-> "alive", kind |-> kind, cfg_ |-> UninitCfg, _vertices |-> <<NULL, NULL>>,
     _measurement |-> Fin(0), _information |-> IndetVec, _error |-> IndetVec,
     _jacobianOplusXi |-> IndetJac, _jacobianOplusXj |-> IndetJac]

\* how a call ended: res is "returned" or the fault that ended the process;
\* div, ret, fresh and erased record what the call did (whether it divided by
\* the rotation, the vector it returned, whether read() ran on an edge as
\* constructed, how many edges() sets the destructor erased from)
Out(op, e, res) ==
    [op |-> op, e |-> e, res |-> res, div |-> FALSE, ret |-> IndetVec, fresh |-> FALSE,
     erased |-> 0]
Running == outcome.res \notin Faults
Alive(e) == edges[e].st = "alive"

NoStream == [toks |-> <<>>, fail |-> FALSE]
NoWrote == [kind |-> "none", m |-> Indet, w |-> Indet]

(***************************************************************************)
(* The endpoint poses a run starts from.                                   *)
(***************************************************************************)
Headings == {Fin(t) : t \in 0..MaxTurn}
Corners(s) == {<<Fin(x), Fin(y)>> : x \in {0, 6 * s}, y \in {0, 8 * s}}
FinitePoses(s) == {Pose(c[1], c[2], t) : c \in Corners(s), t \in Headings}
NonFinitePoses ==
    {Pose(NaN, Fin(0), Fin(0)), Pose(PInf, Fin(0), Fin(0)), Pose(Fin(0), NInf, Fin(1)),
     Pose(Fin(0), Fin(0), NaN), Pose(Fin(0), Fin(0), PInf), Pose(PInf, PInf, Fin(0))}
Origin == Pose(Fin(0), Fin(0), Fin(0))
\* a second pose ahead, one turned on the spot, one behind, one carrying NaN
FewPoses ==
    {Pose(Fin(6), Fin(0), Fin(0)), Pose(Fin(0), Fin(0), Fin(1)),
     Pose(Fin(-6), Fin(0), Fin(0)), Pose(NaN, Fin(0), Fin(0))}
\* a band along the x axis
Band == [p \in PoseIds |-> Pose(Fin(6 * (p - 1)), Fin(0), Fin(0))]

(***************************************************************************)
(* Construction and set-up.                                                *)
(***************************************************************************)
\* new EdgeKinematicsDiffDrive / new EdgeKinematicsCarlike
Construct(e, kind) ==
    /\ Running
    /\ edges[e].st = "unborn"
    /\ edges' = [edges EXCEPT ![e] = NewEdge(kind)]
    /\ outcome' = Out("construct", e, "returned")
    /\ UNCHANGED <<poses, adj, graph, stream, wrote, log>>

\* setTebConfig(cfg): cfg_ = &cfg
setTebConfig(e, c) ==
    /\ Running
    /\ Alive(e)
    /\ edges' = [edges EXCEPT ![e].cfg_ = BoundCfg(c)]
    /\ outcome' = Out("setTebConfig", e, "returned")
    /\ UNCHANGED <<poses, adj, graph, stream, wrote, log>>

\* setVertex(i, pose) of the base class, as the planner uses it: on an edge
\* that is not yet held by the graph
setVertex(e, i, p) ==
    /\ Running
    /\ Alive(e)
    /\ e \notin graph
    /\ edges' = [edges EXCEPT ![e]._vertices[i] = p]
    /\ outcome' = Out("setVertex", e, "returned")
    /\ UNCHANGED <<poses, adj, graph, stream, wrote, log>>

\* setInformation(W) of the base class; the diagonal of W
setInformation(e, w) ==
    /\ Running
    /\ Alive(e)
    /\ edges' = [edges EXCEPT ![e]._information = w]
    /\ outcome' = Out("setInformation", e, "returned")
    /\ UNCHANGED <<poses, adj, graph, stream, wrote, log>>

\* setMeasurement(m) of the base class
setMeasurement(e, m) ==
    /\ Running
    /\ Alive(e)
    /\ edges' = [edges EXCEPT ![e]._measurement = m]
    /\ outcome' = Out("setMeasurement", e, "returned")
    /\ UNCHANGED <<poses, adj, graph, stream, wrote, log>>

\* optimizer->addEdge(edge): the graph takes the edge and enters it in the
\* edges() set of each of its vertices
addEdge(e) ==
    /\ Running
    /\ Alive(e)
    /\ e \notin graph
    /\ edges[e]._vertices[1] # NULL
    /\ edges[e]._vertices[2] # NULL
    /\ graph' = graph \cup {e}
    /\ adj' = [p \in PoseIds |->
                 IF p = edges[e]._vertices[1] \/ p = edges[e]._vertices[2]
                 THEN adj[p] \cup {e} ELSE adj[p]]
    /\ outcome' = Out("addEdge", e, "returned")
    /\ UNCHANGED <<poses, edges, stream, wrote, log>>


(***************************************************************************)
(* Destruction.                                                            *)
(***************************************************************************)
ErasedAdjMutFirstOnly(e) ==
    [p \in PoseIds |->
        IF \E i \in 1..1 : edges[e]._vertices[i] # NULL /\ edges[e]._vertices[i] = p
        THEN adj[p] \ {e} ELSE adj[p]]

\* the destructor's loop: _vertices[i]->edges().erase(this) for each non-null i
ErasedAdj(e) ==
    [p \in PoseIds |->
        IF \E i \in 1..2 : edges[e]._vertices[i] # NULL /\ edges[e]._vertices[i] = p
        THEN adj[p] \ {e} ELSE adj[p]]

\* delete edge, as the graph's clear() does for every edge it holds
Destroy(e) ==
    /\ Running
    /\ Alive(e)
    /\ adj' = ErasedAdj(e)
    /\ edges' = [edges EXCEPT ![e] = NoEdge("destroyed")]
    /\ graph' = graph \ {e}
    /\ outcome' = [Out("destroy", e, "returned") EXCEPT
                      !.erased = Cardinality({p \in PoseIds : e \in adj[p] /\ e \notin adj'[p]})]
    /\ UNCHANGED <<poses, stream, wrote, log>>

(***************************************************************************)
(* computeError and getError.                                              *)
(***************************************************************************)
\* the end of computeError: the assertion on the two components
Finish(r, lines) ==
    [res |-> IF ErrorFinite(r.err) THEN "returned" ELSE "numerical_fault",
     err |-> r.err, div |-> r.div, lines |-> lines]

\* The ways computeError can end on edge object E when the assertion reads
\* cfg_ as cfgp, each with the error vector it leaves, whether it divided by
\* the rotation and the log lines it sent.
\*  - cfg_ null: ROS_ASSERT_MSG(cfg_, ...) fails;
\*  - a null vertex: conf->position() reads through the null pointer, which is
\*    undefined: the process is killed, or goes on with meaningless values;
\*  - Carlike with an uninitialised non-null cfg_ and a rotation: reading
\*    cfg_->robot.min_turning_radius is undefined: killed, or any radius.
computeErrorReading(E, cfgp) ==
    IF cfgp = "null"
    THEN {[res |-> "precondition_fault", err |-> E._error, div |-> FALSE, lines |-> 0]}
    ELSE IF E._vertices[1] = NULL \/ E._vertices[2] = NULL
    THEN {[res |-> "segfault", err |-> E._error, div |-> FALSE, lines |-> 0],
          [res |-> "returned", err |-> IndetVec, div |-> FALSE, lines |-> 0]}
    ELSE LET conf1 == poses[E._vertices[1]]
             conf2 == poses[E._vertices[2]]
         IN  IF E.kind = "DiffDrive"
             THEN {Finish(DiffDrive_error(E.cfg_.cfg, conf1, conf2), 0)}
             ELSE IF cfgp = "garbage" /\ Carlike_error(E.cfg_.cfg, conf1, conf2).div
             THEN {[res |-> "segfault", err |-> E._error, div |-> FALSE, lines |-> 0]}
                  \cup {Finish(Carlike_error(c, conf1, conf2), 2) : c \in Configs}
             ELSE {Finish(Carlike_error(E.cfg_.cfg, conf1, conf2), 2)}

computeError(E) == UNION {computeErrorReading(E, cfgp) : cfgp \in CfgReadings(E.cfg_)}

\* getError(): computeError(); return _error;
getError(e) ==
    /\ Running
    /\ Alive(e)
    /\ \E r \in computeError(edges[e]) :
          /\ log + r.lines <= MaxLog
          /\ edges' = [edges EXCEPT ![e]._error = r.err]
          /\ log' = log + r.lines
          /\ outcome' = [Out("getError", e, r.res) EXCEPT
                            !.div = r.div,
                            !.ret = IF r.res = "returned" THEN r.err ELSE IndetVec]
    /\ UNCHANGED <<poses, adj, graph, stream, wrote>>

\* EdgeKinematicsDiffDrive::linearizeOplus (built with USE_ANALYTIC_JACOBI)
linearizeOplus(e) ==
    /\ Running
    /\ Alive(e)
    /\ edges[e].kind = "DiffDrive"
    /\ \E cfgp \in CfgReadings(edges[e].cfg_) :
       LET E == edges[e]
       IN  IF cfgp = "null"
           THEN /\ outcome' = Out("linearizeOplus", e, "precondition_fault")
                /\ UNCHANGED edges
           ELSE IF E._vertices[1] = NULL \/ E._vertices[2] = NULL
           THEN \/ /\ outcome' = Out("linearizeOplus", e, "segfault")
                   /\ UNCHANGED edges
                \/ /\ outcome' = Out("linearizeOplus", e, "returned")
                   /\ edges' = [edges EXCEPT ![e]._jacobianOplusXi = IndetJac,
                                             ![e]._jacobianOplusXj = IndetJac]
           ELSE LET J == DiffDrive_jacobian(poses[E._vertices[1]], poses[E._vertices[2]])
                IN  /\ outcome' = Out("linearizeOplus", e, "returned")
                    /\ edges' = [edges EXCEPT ![e]._jacobianOplusXi = J.Xi,
                                              ![e]._jacobianOplusXj = J.Xj]
    /\ UNCHANGED <<poses, adj, graph, stream, wrote, log>>

(***************************************************************************)
(* write and read.                                                         *)
(***************************************************************************)
Num(v) == [t |-> "num", s |-> "", v |-> v]
Word(s) == [t |-> "word", s |-> s, v |-> Indet]

\* os << double, at the stream's default precision of 6 significant digits:
\* the value the printed digits denote
FormatDouble(a) ==
    IF a.k # "fin" THEN a
    ELSE LET m == AbsInt(a.n)
             p == IF m < 1000000 THEN 1 ELSE IF m < 10000000 THEN 10 ELSE 100
         IN  Fin(Sgn(a.n) * (((m + (p \div 2)) \div p) * p))

\* os << information()(0,0) << " Error NH-Constraint: " << _error[0]
\*    << ", Error PosDriveDir: " << _error[1]
WrittenText(E) ==
    << Num(FormatDouble(E._information[1])), Word("Error"), Word("NH-Constraint:"),
       Num(FormatDouble(E._error[1])), Word(","), Word("Error"), Word("PosDriveDir:"),
       Num(FormatDouble(E._error[2])) >>

\* write(os), os a new and empty stream
write(e) ==
    /\ Running
    /\ Alive(e)
    /\ stream' = [toks |-> WrittenText(edges[e]), fail |-> FALSE]
    /\ wrote' = [kind |-> edges[e].kind, m |-> edges[e]._measurement,
                 w |-> edges[e]._information[1]]
    /\ outcome' = Out("write", e, "returned")
    /\ UNCHANGED <<poses, adj, graph, edges, log>>

\* is >> x for a double x holding old.  A failed extraction sets failbit and
\* stores 0 (C++11 and later) or leaves x as it was (before C++11).
ExtractDouble(st, old, cxx11) ==
    IF st.fail THEN [val |-> old, st |-> st]
    ELSE IF st.toks # <<>> /\ Head(st.toks).t = "num"
    THEN [val |-> Head(st.toks).v, st |-> [toks |-> Tail(st.toks), fail |-> FALSE]]
    ELSE [val |-> IF cxx11 THEN Fin(0) ELSE old, st |-> [toks |-> st.toks, fail |-> TRUE]]

\* read(is): is >> _measurement; is >> information()(0,0); return true
read(e) ==
    /\ Running
    /\ Alive(e)
    /\ \E cxx11 \in BOOLEAN :
          LET x1 == ExtractDouble(stream, edges[e]._measurement, cxx11)
              x2 == ExtractDouble(x1.st, edges[e]._information[1], cxx11)
          IN  /\ edges' = [edges EXCEPT ![e]._measurement = x1.val,
                                        ![e]._information[1] = x2.val]
              /\ stream' = x2.st
    /\ outcome' = [Out("read", e, "returned") EXCEPT
                      !.fresh = (edges[e] = NewEdge(edges[e].kind))]
    /\ UNCHANGED <<poses, adj, graph, wrote, log>>


(***************************************************************************)
(* Specifications.                                                         *)
(***************************************************************************)
\* the program before any edge is built: the band holds its poses
InitObjects ==
    /\ adj = [p \in PoseIds |-> {}]
    /\ graph = {}
    /\ edges = [e \in EdgeIds |-> NoEdge("unborn")]
    /\ stream = NoStream
    /\ wrote = NoWrote
    /\ outcome = Out("none", 0, "none")
    /\ log = 0

Init ==
    /\ InitObjects
    /\ \E conf2 \in FewPoses :
          poses = [p \in PoseIds |-> IF p = 2 THEN conf2 ELSE Origin]

\* the life of one edge: construction, set-up and evaluation
Next ==
    \/ \E kind \in Kinds : Construct(1, kind)
    \/ \E c \in Configs : setTebConfig(1, c)
    \/ \E i \in 1..2, p \in PoseIds : setVertex(1, i, p)
    \/ getError(1)
    \/ linearizeOplus(1)

Spec == Init /\ [][Next]_vars

InitBand == InitObjects /\ poses = Band

\* edges built, attached, entered in the graph and destroyed; an endpoint is
\* attached once, to any pose
NextGraph ==
    \/ \E e \in EdgeIds, kind \in Kinds : Construct(e, kind)
    \/ \E e \in EdgeIds, i \in 1..2, p \in PoseIds :
          edges[e]._vertices[i] = NULL /\ setVertex(e, i, p)
    \/ \E e \in EdgeIds : addEdge(e)
    \/ \E e \in EdgeIds : Destroy(e)

SpecGraph == InitBand /\ [][NextGraph]_vars

\* edges saved to and restored from a text stream
Weights == {<<Fin(1000), Fin(1)>>, <<Fin(1234567), Fin(1)>>}
Measurements == {Fin(2)}

\* edge 1 is saved, edge 2 restored
NextIO ==
    \/ \E e \in {1, 2}, kind \in Kinds : Construct(e, kind)
    \/ \E w \in Weights : setInformation(1, w)
    \/ \E m \in Measurements : setMeasurement(1, m)
    \/ write(1)
    \/ read(2)

SpecIO == InitBand /\ [][NextIO]_vars

\* The cost functions on every pair of endpoint poses: edge 1 is built, bound
\* to a configuration, attached to poses 1 and 2 and entered in the graph.
InitFun ==
    /\ \E s \in 1..MaxScale :
       \E conf1 \in FinitePoses(s) \cup NonFinitePoses :
       \E conf2 \in FinitePoses(s) \cup NonFinitePoses :
          poses = [p \in PoseIds |-> IF p = 1 THEN conf1 ELSE IF p = 2 THEN conf2 ELSE Origin]
    /\ \E kind \in Kinds, c \in Configs :
          edges = [e \in EdgeIds |->
                     IF e = 1
                     THEN [NewEdge(kind) EXCEPT
                              !.cfg_ = BoundCfg(c),
                              !._vertices = <<1, 2>>,
                              !._information = <<Fin(1000), Fin(1)>>]
                     ELSE NoEdge("unborn")]
    /\ adj = [p \in PoseIds |-> IF p \in {1, 2} THEN {1} ELSE {}]
    /\ graph = {1}
    /\ stream = NoStream
    /\ wrote = NoWrote
    /\ outcome = Out("addEdge", 1, "returned")
    /\ log = 0

NextFun ==
    \/ getError(1)
    \/ linearizeOplus(1)

SpecFun == InitFun /\ [][NextFun]_vars


(***************************************************************************)
(* Properties.                                                             *)
(***************************************************************************)
\* the edge the last call was made on, and its endpoint poses
LastEdge == edges[outcome.e]
Conf1 == poses[LastEdge._vertices[1]]
Conf2 == poses[LastEdge._vertices[2]]
Evaluated(kind) ==
    /\ outcome.op = "getError"
    /\ LastEdge.kind = kind
    /\ LastEdge._vertices[1] # NULL
    /\ LastEdge._vertices[2] # NULL
\* displacement of two finite poses with integer coordinates
Dx(c1, c2) == c2.x.n - c1.x.n
Dy(c1, c2) == c2.y.n - c1.y.n
Dist2(c1, c2) == Dx(c1, c2) * Dx(c1, c2) + Dy(c1, c2) * Dy(c1, c2)
\* displacement projected on pose 1's heading
Projection(c1, c2) ==
    Add(Mul(Sub(c2.x, c1.x), cos(c1.theta)), Mul(Sub(c2.y, c1.y), sin(c1.theta)))
\* the non-holonomic expression before the absolute value
SignedNH(c1, c2) ==
    Sub(Mul(Add(cos(c1.theta), cos(c2.theta)), Sub(c2.y, c1.y)),
        Mul(Add(sin(c1.theta), sin(c2.theta)), Sub(c2.x, c1.x)))
\* heading difference modulo a full turn, in 0..3 quarter turns
TurnMod(c1, c2) == (c2.theta.n - c1.theta.n) % 4
\* |normalised heading difference| when it is not 0
AbsTurn(c1, c2) == IF TurnMod(c1, c2) = 3 THEN 1 ELSE TurnMod(c1, c2)

\* C1: on an edge on which setTebConfig was never called, every evaluation
\* (computeError/getError, linearizeOplus) ends in a precondition fault and
\* never returns a result.
C1_UnboundEvaluationFaults ==
    (outcome.op \in {"getError", "linearizeOplus"} /\ LastEdge.cfg_.p = "uninit")
        => outcome.res = "precondition_fault"

\* C2: evaluating the error on an edge with a bound configuration and a null
\* endpoint ends in a precondition fault, not in a read through the null
\* pointer and not in a result.
C2_NullEndpointFaults ==
    (/\ outcome.op = "getError"
     /\ LastEdge.cfg_.p = "bound"
     /\ (LastEdge._vertices[1] = NULL \/ LastEdge._vertices[2] = NULL))
        => outcome.res = "precondition_fault"

\* C3: the text written by an edge holding measurement m and weight w, read by
\* a fresh edge of the same type, leaves that edge with measurement m and
\* weight w.
C3_RoundTrip ==
    (/\ outcome.op = "read"
     /\ outcome.fresh
     /\ wrote.kind = LastEdge.kind
     /\ isfinite(wrote.m)
     /\ isfinite(wrote.w))
        => (LastEdge._measurement = wrote.m /\ LastEdge._information[1] = wrote.w)

\* C4: an evaluation that produces a non-finite error component ends in a
\* numerical fault; getError never returns a vector with a non-finite
\* component, and what it returns is the vector it computed.
C4_NonFiniteFaults ==
    (Evaluated("DiffDrive") \/ Evaluated("Carlike")) =>
        /\ (LastEdge._error[1].k # "fin" \/ LastEdge._error[2].k # "fin")
              => outcome.res = "numerical_fault"
        /\ outcome.res = "returned"
              => /\ outcome.ret[1].k = "fin"
                 /\ outcome.ret[2].k = "fin"
                 /\ outcome.ret = LastEdge._error

C4_Witness ==
    /\ Evaluated("Carlike")
    /\ outcome.res = "numerical_fault"
    /\ Conf1.x = PInf
    /\ LastEdge._error[2] = Fin(0)

C7_DriveDirection ==
    (/\ Evaluated("DiffDrive")
     /\ FinitePose(Conf1)
     /\ FinitePose(Conf2))
        => LET pr == Projection(Conf1, Conf2)
               v == LastEdge._error[2]
           IN  /\ outcome.res = "returned"
               /\ v.k = "fin"
               /\ pr.n >= 0 => v = Fin(0)
               /\ pr.n < 0 =>
                    /\ v.n > 0
                    /\ \A s \in 1..MaxScale : \A a2 \in FinitePoses(s) :
                          LT(Projection(Conf1, a2), pr)
                             => LT(v, DiffDrive_error(LastEdge.cfg_.cfg, Conf1, a2).err[2])
               /\ \A t \in Headings, c \in Configs :
                     DiffDrive_error(c, Conf1, [Conf2 EXCEPT !.theta = t]).err[2] = v

C7_Witness ==
    /\ Evaluated("DiffDrive")
    /\ outcome.res = "returned"
    /\ Projection(Conf1, Conf2) = Fin(-6)
    /\ LastEdge.cfg_.cfg.penalty_epsilon = Fin(1)
    /\ LastEdge._error[2] = Fin(6)

\* the difference stencil of the Jacobian check: one step of a variable
Shift(c, col, h) ==
    CASE col = 1 -> [c EXCEPT !.x = Add(c.x, Fin(h))]
      [] col = 2 -> [c EXCEPT !.y = Add(c.y, Fin(h))]
      [] OTHER -> [c EXCEPT !.theta = Rot(c.theta.n, h)]
\* the pose pair with variable col of endpoint j moved by h steps
Moved(j, col, h) ==
    IF j = 1 THEN <<Shift(Conf1, col, h), Conf2>> ELSE <<Conf1, Shift(Conf2, col, h)>>
\* the quantity under the kink of component row
Kink(row, pair) ==
    IF row = 1 THEN SignedNH(pair[1], pair[2]) ELSE Projection(pair[1], pair[2])
StencilSmooth(row, j, col) ==
    /\ Kink(row, <<Conf1, Conf2>>).n # 0
    /\ Sgn(Kink(row, Moved(j, col, 1)).n) = Sgn(Kink(row, <<Conf1, Conf2>>).n)
    /\ Sgn(Kink(row, Moved(j, col, -1)).n) = Sgn(Kink(row, <<Conf1, Conf2>>).n)
\* f(v+h) - f(v-h) for component row
Difference(row, j, col) ==
    Sub(DiffDrive_error(LastEdge.cfg_.cfg, Moved(j, col, 1)[1], Moved(j, col, 1)[2]).err[row],
        DiffDrive_error(LastEdge.cfg_.cfg, Moved(j, col, -1)[1], Moved(j, col, -1)[2]).err[row])
\* 2 for x and y, 2 sin(atan(5/12)) for the headings
TwiceStep(col) == IF col = 3 THEN Rat(10, 13) ELSE Fin(2)
JacobianEntry(row, j, col) ==
    IF j = 1 THEN LastEdge._jacobianOplusXi[row][col] ELSE LastEdge._jacobianOplusXj[row][col]
Linearized ==
    /\ outcome.op = "linearizeOplus"
    /\ outcome.res = "returned"
    /\ LastEdge._vertices[1] # NULL
    /\ LastEdge._vertices[2] # NULL
    /\ FinitePose(Conf1)
    /\ FinitePose(Conf2)
    /\ SignedNH(Conf1, Conf2).n # 0
    /\ Projection(Conf1, Conf2).n # 0

\* C8: diff-drive edge: every entry linearizeOplus writes equals the central
\* difference of the matching computeError component in the matching variable,
\* wherever the non-holonomic expression and the projection are non-zero at
\* the pose pair and the one under the component's kink keeps its sign over
\* the difference stencil.  The stencil is +-1 for x and y, in which the
\* components are piecewise linear: f(v+1) - f(v-1) = 2 f'(v).  It is
\* +-atan(5/12) for the headings, in which they are piecewise of the form
\* a cos + b sin + c: f(t+h) - f(t-h) = 2 sin(h) f'(t), with sin(h) = 5/13.
C8_JacobianMatchesDifferences ==
    Linearized =>
        \A row \in 1..2, j \in 1..2, col \in 1..3 :
            StencilSmooth(row, j, col) =>
                Mul(TwiceStep(col), JacobianEntry(row, j, col)) = Difference(row, j, col)

C8_Witness ==
    /\ Linearized
    /\ Projection(Conf1, Conf2).n < 0
    /\ \A row \in 1..2, j \in 1..2, col \in 1..3 : StencilSmooth(row, j, col)
    /\ JacobianEntry(1, 1, 3).n # 0
    /\ JacobianEntry(1, 2, 3).n # 0
    /\ JacobianEntry(2, 1, 3).n # 0

\* C9: a successful error evaluation (bound configuration, finite poses)
\* changes nothing but the edge's own error vector: poses, configuration,
\* weights and measurement stay, and nothing is written to a stream or the log.
C9_EvaluationFrame ==
    [][(/\ outcome'.op = "getError"
        /\ outcome'.res = "returned"
        /\ edges[outcome'.e].cfg_.p = "bound"
        /\ edges[outcome'.e]._vertices[1] # NULL
        /\ edges[outcome'.e]._vertices[2] # NULL)
           => /\ poses' = poses
              /\ adj' = adj
              /\ graph' = graph
              /\ stream' = stream
              /\ log' = log
              /\ edges' = [edges EXCEPT ![outcome'.e]._error = edges'[outcome'.e]._error]]_vars

=============================================================================
